---- MODULE Spec2Model ----
(***************************************************************************)
(* Scene-change detector (VideoProcessor.extract_frames_with_changes) and  *)
(* deduplicator (VideoProcessor.remove_duplicate_frames) of the video to   *)
(* presentation converter, and the session of app.py that runs them in a   *)
(* background thread (process_video_background) next to the /process,      *)
(* /stop and /progress handlers, as state machines.                        *)
(*                                                                         *)
(* Similarities and thresholds are percentages (0.95 is 95); a raster is   *)
(* an image id and the similarity of two rasters is read from a symmetric  *)
(* table chosen in the initial state, so the scorer is an arbitrary        *)
(* deterministic symmetric function.  Percentages of progress snapshots    *)
(* are the floor of the float the code computes.                           *)
(***************************************************************************)
EXTENDS Integers, Sequences, FiniteSets, TLC

\* ---- bounds of the model ------------------------------------------------
MaxFrames == 5
NumImages == 2
MaxInterval == 2
MaxSkip == 2
MaxCands == 4
MaxSimilarPairs == 3
MaxAppFrames == 3
MaxRuns == 2
MaxRequests == 3

\* ---- input domains ------------------------------------------------------
ChangeThresholds == {30}
SimLevels == {50, 90, 97}
LowSim == CHOOSE l \in SimLevels : \A m \in SimLevels : l <= m
DetSimLevels == {LowSim, 97}
DedupThresholds == {85, 95}

\* ---- program constants --------------------------------------------------
DEDUP_SIMILARITY_THRESHOLD == 95
PROGRESS_EVERY == 10
DEFAULT_MIN_FRAME_INTERVAL == 30

VARIABLES
    cfg,             \* change_threshold, min_frame_interval, frame_skip
    use_ml,          \* self.use_ml (embedding strategy in effect)
    ssimSim,         \* structural similarity of two rasters, by pair of ids
    mlSim,           \* cosine similarity of two feature vectors, by pair of ids
    source,          \* the frames cap.read() delivers, in order
    total_frames,    \* CAP_PROP_FRAME_COUNT as reported
    openable,        \* cap.isOpened()
    pc,              \* position of the pass
    det,             \* locals of extract_frames_with_changes
    last_progress_update, \* 0 until the first 'extracting' snapshot
    stop_requested,  \* what stop_check() returns
    lastSnap,        \* last snapshot the detector handed to progress_callback
    nStopped,        \* number of 'stopped' snapshots the detector emitted
    nCompleted,      \* number of 'completed' snapshots the detector emitted
    returned,        \* return value of extract_frames_with_changes
    self_frames,     \* self.frames
    dIn,             \* argument `frames` of remove_duplicate_frames
    dThr,            \* argument `similarity_threshold`
    dOut,            \* its return value
    dRemoved,        \* duplicates_removed of that call
    dSnaps,          \* snapshots that call handed to progress_callback
    dOut2,           \* return value of the call on dOut
    dHi,             \* return value of the call on dIn with a higher threshold
    dpc,             \* position of the deduplication harness
    progress,        \* sessions[session_id]['progress']
    session,         \* the frames and thumbnails kept in sessions[session_id]
    run,             \* number of /process requests accepted for the session
    sessions,        \* the ids that are keys of the `sessions` table
    pending,         \* writes to the progress dictionary the thread has yet to do
    dd,              \* locals of the remove_duplicate_frames call in progress
    stopAck,         \* where the thread was when /stop last answered success
    handlers,        \* position of every /process request being handled
    alive,           \* the background threads that are alive
    processing_thread \* session['processing_thread']

detVars == <<pc, det, last_progress_update, stop_requested, lastSnap, nStopped,
             nCompleted, returned, self_frames>>
inVars == <<cfg, use_ml, ssimSim, mlSim, source, total_frames, openable>>
dedupVars == <<dIn, dThr, dOut, dRemoved, dSnaps, dOut2, dHi, dpc>>
sessVars == <<session, run>>
appVars == <<progress, session, run>>
threadVars == <<pending, dd>>
webVars == <<stopAck, sessions>>
procVars == <<handlers, alive, processing_thread>>
auxVars == <<pending, dd, stopAck, sessions, handlers, alive, processing_thread>>
vars == <<cfg, use_ml, ssimSim, mlSim, source, total_frames, openable, pc, det,
          last_progress_update, stop_requested, lastSnap, nStopped, nCompleted,
          returned, self_frames, dIn, dThr, dOut, dRemoved, dSnaps, dOut2, dHi, dpc,
          progress, session, run, sessions, pending, dd, stopAck, handlers,
          alive, processing_thread>>

\* ---- helpers --------------------------------------------------------------
Max(a, b) == IF a >= b THEN a ELSE b

Pairs(n) == {{a, b} : a \in 1..n, b \in 1..n} \ {{a} : a \in 1..n}

\* similarity of rasters a and b under table tbl; a raster equals itself
Sim(tbl, a, b) == IF a = b THEN 100 ELSE tbl[{a, b}]

IsPrefix(s, t) == Len(s) <= Len(t) /\ \A i \in 1..Len(s) : s[i] = t[i]

StrictlyIncreasing(fs) ==
    \A i \in 1..Len(fs) : \A j \in 1..Len(fs) :
        i < j => fs[i].frame_number < fs[j].frame_number

\* ids are names only: a source uses ids in order of first appearance
Canonical(s) ==
    \A i \in 1..Len(s) :
        s[i] <= 1 + (IF i = 1 THEN 0
                     ELSE CHOOSE m \in 1..NumImages :
                            /\ \E j \in 1..(i-1) : s[j] = m
                            /\ \A j \in 1..(i-1) : s[j] <= m)

Sources ==
    {s \in UNION {[1..n -> 1..NumImages] : n \in 0..MaxFrames} : Canonical(s)}

\* ---- extract_frames_with_changes ------------------------------------------
Snapshot(stage, current, pct, detected, stopped) ==
    [stage |-> stage, current_frame |-> current, total_frames |-> total_frames,
     percentage |-> pct, frames_detected |-> detected, stopped |-> stopped]

NoSnapshot == Snapshot("none", 0, 0, 0, FALSE)

\* dict.update: the keys of s overwrite those of p, the other keys of p stay
Merge(p, s) ==
    [k \in DOMAIN p \cup DOMAIN s |-> IF k \in DOMAIN s THEN s[k] ELSE p[k]]

RECURSIVE MergeAll(_, _)
MergeAll(p, snaps) ==
    IF snaps = <<>> THEN p ELSE MergeAll(Merge(p, Head(snaps)), Tail(snaps))

\* progress_callback(snapshot), the callback being update_progress
\* the key under which /upload put the session into `sessions`
session_id == "uuid"

\* update_progress: if session_id in sessions: ...['progress'].update(progress_data)
UpdateProgress(p, snapshot) ==
    IF session_id \in sessions THEN Merge(p, snapshot) ELSE p

\* progress_callback(snapshot) of the detector
Emit(snapshot) ==
    /\ lastSnap' = snapshot
    /\ progress' = UpdateProgress(progress, snapshot)

\* mutant: the stop check only looks at the flag
ShouldStopFlagOnly == stop_requested

\* should_stop: True for a session that is gone, else its stop_requested
ShouldStop == session_id \notin sessions \/ stop_requested

\* (frame_count / total_frames) * 100 if total_frames > 0 else 0
Percentage(frame_count) ==
    IF total_frames > 0 THEN (frame_count * 100) \div total_frames ELSE 0

\* the frame dictionary appended to `frames`; Image.fromarray always yields
\* a usable image
FrameData(frame_count, img) ==
    [frame_number |-> frame_count, image |-> img, usable |-> TRUE, feat |-> TRUE]

\* 1 - cosine_sim (embedding) or 1 - ssim_score (structural)
Difference(a, b) ==
    100 - (IF use_ml THEN Sim(mlSim, a, b) ELSE Sim(ssimSim, a, b))

MinProcessedInterval == Max(1, cfg.min_frame_interval \div cfg.frame_skip)

DetLocals ==
    [frames |-> <<>>, prev |-> <<>>, frame_count |-> 0,
     processed_frame_count |-> 0,
     last_change_processed_frame |-> 0 - cfg.min_frame_interval]

\* mutant: the skip test looks at the index of the next frame
IsSkippedOffByOne(d) == (d.frame_count + 1) % cfg.frame_skip # 0

IsSkipped(d) == d.frame_count % cfg.frame_skip # 0

\* mutant: the minimum-spacing check is gone
IsEarlyExitNever(d) == FALSE

\* evaluated after processed_frame_count += 1
IsEarlyExit(d) ==
    (d.processed_frame_count + 1) - d.last_change_processed_frame - 1
        < MinProcessedInterval

SkipFrame(d) == [d EXCEPT !.frame_count = @ + 1]

EarlyExit(d) ==
    [d EXCEPT !.processed_frame_count = @ + 1, !.frame_count = @ + 1]

\* mutant: every scored frame is a scene change
IsSceneChangeAlways(d, img) == TRUE

IsSceneChange(d, img) ==
    \/ d.prev = <<>>
    \/ Difference(img, d.prev[1]) > cfg.change_threshold

\* mutant: frames.insert(0, frame_data) for frames.append(frame_data)
ScoreFramePrepends(d, img) ==
    LET p == d.processed_frame_count + 1
        change == IsSceneChange(d, img)
    IN  [frames |-> IF change
                      THEN <<FrameData(d.frame_count, img)>> \o d.frames
                      ELSE d.frames,
         prev |-> <<img>>,
         frame_count |-> d.frame_count + 1,
         processed_frame_count |-> p,
         last_change_processed_frame |->
             IF change THEN p ELSE d.last_change_processed_frame]

ScoreFrame(d, img) ==
    LET p == d.processed_frame_count + 1
        change == IsSceneChange(d, img)
    IN  [frames |-> IF change
                      THEN Append(d.frames, FrameData(d.frame_count, img))
                      ELSE d.frames,
         prev |-> <<img>>,
         frame_count |-> d.frame_count + 1,
         processed_frame_count |-> p,
         last_change_processed_frame |->
             IF change THEN p ELSE d.last_change_processed_frame]

\* one iteration of the while loop on a frame that was read
DetStep(d, img) ==
    IF IsSkipped(d) THEN SkipFrame(d)
    ELSE IF IsEarlyExit(d) THEN EarlyExit(d)
    ELSE ScoreFrame(d, img)

RECURSIVE RunFrom(_, _)
RunFrom(d, src) ==
    IF d.frame_count >= Len(src) THEN d
    ELSE RunFrom(DetStep(d, src[d.frame_count + 1]), src)

\* the candidate list of a run that is never asked to stop
Uninterrupted == RunFrom(DetLocals, source).frames

DetOpen ==
    /\ pc = "start"
    /\ openable
    /\ pc' = "scanning"
    /\ Emit(Snapshot("initializing", 0, 0, 0, FALSE))
    /\ UNCHANGED <<det, last_progress_update, stop_requested, nStopped,
                   nCompleted, returned, self_frames>>
    /\ UNCHANGED inVars /\ UNCHANGED auxVars /\ UNCHANGED dedupVars /\ UNCHANGED sessVars

DetOpenFail ==
    /\ pc = "start"
    /\ ~openable
    /\ pc' = "raised"
    /\ UNCHANGED <<det, last_progress_update, stop_requested, lastSnap, nStopped,
                   nCompleted, returned, self_frames>>
    /\ UNCHANGED inVars /\ UNCHANGED auxVars /\ UNCHANGED dedupVars /\ UNCHANGED appVars

\* where the thread of the run is: started and yet to reset the flag, in
\* the detector, or past it
ThreadPhase ==
    IF pc = "spawned" THEN "spawned"
    ELSE IF pc \in {"start", "scanning"} THEN "detecting"
    ELSE "later"

\* POST /stop: session['stop_requested'] = True, answered with success;
\* stopAck keeps where the thread was at that moment
StopProcessing ==
    /\ session_id \in sessions
    /\ stop_requested' = TRUE
    /\ stopAck' = ThreadPhase
    /\ UNCHANGED <<pc, det, last_progress_update, lastSnap, nStopped,
                   nCompleted, returned, self_frames>>
    /\ UNCHANGED <<pending, dd, sessions>> /\ UNCHANGED procVars
    /\ UNCHANGED inVars /\ UNCHANGED dedupVars /\ UNCHANGED appVars

\* a stop request that arrives while the detector is reading frames
RequestStop ==
    /\ pc = "scanning"
    /\ ~stop_requested
    /\ StopProcessing

\* `return frames` of the stop branch
StoppedResult(d) == d.frames

\* mutant: the stop branch reports the frames read for the frames detected
StoppedSnapshotMiscount(d) ==
    Snapshot("stopped", d.frame_count, Percentage(d.frame_count),
             d.frame_count, TRUE)

\* the snapshot of the stop branch; it has no 'error' key
StoppedSnapshot(d) ==
    Snapshot("stopped", d.frame_count, Percentage(d.frame_count),
             Len(d.frames), TRUE)

\* mutant: the final snapshot computes its percentage like the others
CompletedSnapshotComputed(d) ==
    Snapshot("completed", total_frames, Percentage(d.frame_count),
             Len(d.frames), FALSE)

\* the snapshot after the loop
CompletedSnapshot(d) ==
    Snapshot("completed", total_frames, 100, Len(d.frames), FALSE)

DetStop ==
    /\ pc = "scanning"
    /\ ShouldStop
    /\ pc' = "stopped"
    /\ Emit(StoppedSnapshot(det))
    /\ nStopped' = nStopped + 1
    /\ returned' = StoppedResult(det)
    /\ UNCHANGED <<det, last_progress_update, stop_requested, nCompleted,
                   self_frames>>
    /\ UNCHANGED inVars /\ UNCHANGED auxVars /\ UNCHANGED dedupVars /\ UNCHANGED sessVars

DetEnd ==
    /\ pc = "scanning"
    /\ ~ShouldStop
    /\ det.frame_count >= Len(source)
    /\ pc' = "done"
    /\ Emit(CompletedSnapshot(det))
    /\ nCompleted' = nCompleted + 1
    /\ returned' = det.frames
    /\ self_frames' = det.frames
    /\ UNCHANGED <<det, last_progress_update, stop_requested, nStopped>>
    /\ UNCHANGED inVars /\ UNCHANGED auxVars /\ UNCHANGED dedupVars /\ UNCHANGED sessVars

FrameRead ==
    /\ pc = "scanning"
    /\ ~ShouldStop
    /\ det.frame_count < Len(source)

DetSkip ==
    /\ FrameRead
    /\ IsSkipped(det)
    /\ det' = DetStep(det, source[det.frame_count + 1])
    /\ UNCHANGED <<pc, last_progress_update, stop_requested, lastSnap, nStopped,
                   nCompleted, returned, self_frames>>
    /\ UNCHANGED inVars /\ UNCHANGED auxVars /\ UNCHANGED dedupVars /\ UNCHANGED appVars

DetEarlyExit ==
    /\ FrameRead
    /\ ~IsSkipped(det)
    /\ IsEarlyExit(det)
    /\ det' = DetStep(det, source[det.frame_count + 1])
    /\ UNCHANGED <<pc, last_progress_update, stop_requested, lastSnap, nStopped,
                   nCompleted, returned, self_frames>>
    /\ UNCHANGED inVars /\ UNCHANGED auxVars /\ UNCHANGED dedupVars /\ UNCHANGED appVars

\* a scored frame; the snapshot is due every PROGRESS_EVERY processed frames
\* or when half a second of wall time has passed (always so the first time,
\* last_progress_update being 0)
DetScore ==
    /\ FrameRead
    /\ ~IsSkipped(det)
    /\ ~IsEarlyExit(det)
    /\ det' = DetStep(det, source[det.frame_count + 1])
    /\ \E halfSecondPassed \in BOOLEAN :
          IF \/ det'.processed_frame_count % PROGRESS_EVERY = 0
             \/ last_progress_update = 0
             \/ halfSecondPassed
          THEN /\ Emit(Snapshot("extracting", det'.frame_count,
                                Percentage(det'.frame_count),
                                Len(det'.frames), FALSE))
               /\ last_progress_update' = 1
          ELSE UNCHANGED <<lastSnap, progress, last_progress_update>>
    /\ UNCHANGED <<pc, stop_requested, nStopped, nCompleted, returned,
                   self_frames>>
    /\ UNCHANGED inVars /\ UNCHANGED auxVars /\ UNCHANGED dedupVars /\ UNCHANGED sessVars

\* ---- remove_duplicate_frames ----------------------------------------------
DedupSnapshot(current, total, pct, kept) ==
    [stage |-> "removing_duplicates", current_frame |-> current,
     total_frames |-> total, percentage |-> pct, frames_detected |-> total,
     frames_after_dedup |-> kept]

FinalDedupSnapshot(total, kept, removed) ==
    [stage |-> "removing_duplicates", current_frame |-> total,
     total_frames |-> total, percentage |-> 100, frames_detected |-> total,
     frames_after_dedup |-> kept, duplicates_removed |-> removed]

\* 'image' in frame and isinstance(frame['image'], Image.Image)
HasImage(f) == f.usable

\* frame_features_dict.get(idx) is not None
HasFeatures(f) == HasImage(f) /\ use_ml /\ f.feat

\* frame_images_dict.get(idx) is not None
HasArray(f) == HasImage(f)

\* for i, f in enumerate(frames): if f == unique_frame: ... break
FindIndex(frames, unique_frame) ==
    IF \E i \in 1..Len(frames) : frames[i] = unique_frame
    THEN CHOOSE i \in 1..Len(frames) :
            /\ frames[i] = unique_frame
            /\ \A j \in 1..(i-1) : frames[j] # unique_frame
    ELSE 0

\* the embedding comparison of one pair flags a duplicate
MlDuplicate(cur, uniq, thr) ==
    /\ use_ml
    /\ HasFeatures(cur)
    /\ HasFeatures(uniq)
    /\ Sim(mlSim, cur.image, uniq.image) >= thr

\* mutant: the score is read as a difference, small meaning duplicate
SsimDuplicateInverted(cur, uniq, thr) ==
    /\ HasArray(cur)
    /\ HasArray(uniq)
    /\ Sim(ssimSim, uniq.image, cur.image) <= thr

\* the structural comparison of one pair flags a duplicate
SsimDuplicate(cur, uniq, thr) ==
    /\ HasArray(cur)
    /\ HasArray(uniq)
    /\ Sim(ssimSim, uniq.image, cur.image) >= thr

\* one iteration of `for unique_frame_idx, unique_frame in enumerate(unique_frames)`
PairIsDuplicate(frames, cur, unique_frame, thr) ==
    LET unique_list_idx == FindIndex(frames, unique_frame)
    IN  /\ unique_list_idx # 0
        /\ \/ MlDuplicate(cur, frames[unique_list_idx], thr)
           \/ SsimDuplicate(cur, frames[unique_list_idx], thr)

\* the inner loop from position k of unique_frames, with its break
RECURSIVE IsDuplicateFrom(_, _, _, _, _)
IsDuplicateFrom(frames, cur, unique_frames, k, thr) ==
    IF k > Len(unique_frames) THEN FALSE
    ELSE IF PairIsDuplicate(frames, cur, unique_frames[k], thr) THEN TRUE
    ELSE IsDuplicateFrom(frames, cur, unique_frames, k + 1, thr)

\* mutant: unique_frames.insert(0, current_frame)
KeepPrepends(unique_frames, cur, is_duplicate) ==
    IF is_duplicate THEN unique_frames ELSE <<cur>> \o unique_frames

\* what the loop body does to unique_frames for a candidate that has an image
Keep(unique_frames, cur, is_duplicate) ==
    IF is_duplicate THEN unique_frames ELSE Append(unique_frames, cur)

\* the body of `for idx in range(1, len(frames))` for one idx; i is idx + 1.
\* Nothing in it looks at the stop flag
DedupIter(frames, thr, i, st) ==
    LET idx == i - 1
        snaps == IF idx % PROGRESS_EVERY = 0
                 THEN Append(st.snaps,
                             DedupSnapshot(idx, Len(frames),
                                           (idx * 100) \div Len(frames),
                                           Len(st.unique)))
                 ELSE st.snaps
        cur == frames[i]
    IN  IF ~HasImage(cur)
        THEN [st EXCEPT !.snaps = snaps]
        ELSE
          LET dup == IsDuplicateFrom(frames, cur, st.unique, 1, thr)
          IN  [unique |-> Keep(st.unique, cur, dup),
               removed |-> IF dup THEN st.removed + 1 ELSE st.removed,
               snaps |-> snaps]

\* `for idx in range(1, len(frames))` from i on
RECURSIVE DedupLoop(_, _, _, _)
DedupLoop(frames, thr, i, st) ==
    IF i > Len(frames) THEN st
    ELSE DedupLoop(frames, thr, i + 1, DedupIter(frames, thr, i, st))

\* mutant: unique_frames starts empty, the first frame is never put in
RemoveDuplicateFramesUnseeded(frames, thr) ==
    IF Len(frames) <= 1
    THEN [unique |-> frames, removed |-> 0, snaps |-> <<>>]
    ELSE
      LET st == DedupLoop(frames, thr, 2,
                          [unique |-> <<>>, removed |-> 0,
                           snaps |-> <<DedupSnapshot(0, Len(frames), 0, 0)>>])
      IN  [st EXCEPT !.snaps =
              Append(@, FinalDedupSnapshot(Len(frames), Len(st.unique), st.removed))]

\* unique_frames = [frames[0]] and the snapshot made before the loop
DedupStart(frames) ==
    [unique |-> <<frames[1]>>, removed |-> 0,
     snaps |-> <<DedupSnapshot(0, Len(frames), 0, 0)>>]

\* the snapshot made after the loop, added to those of st
DedupFinish(frames, st) ==
    [st EXCEPT !.snaps =
        Append(@, FinalDedupSnapshot(Len(frames), Len(st.unique), st.removed))]

\* remove_duplicate_frames(frames, similarity_threshold, progress_callback)
RemoveDuplicateFrames(frames, thr) ==
    IF Len(frames) <= 1
    THEN [unique |-> frames, removed |-> 0, snaps |-> <<>>]
    ELSE DedupFinish(frames, DedupLoop(frames, thr, 2, DedupStart(frames)))

\* if frames and len(frames) > 1: frames = processor.remove_duplicate_frames(
\*     frames, similarity_threshold=0.95, ...)   (process_video_background)
AppRemoveDuplicates ==
    /\ pc \in {"stopped", "done"}
    /\ pc' = "deduplicated"
    /\ IF Len(returned) > 1
       THEN LET r == RemoveDuplicateFrames(returned, DEDUP_SIMILARITY_THRESHOLD)
            IN  /\ dIn' = returned
                /\ dThr' = DEDUP_SIMILARITY_THRESHOLD
                /\ dOut' = r.unique
                /\ dRemoved' = r.removed
                /\ dSnaps' = r.snaps
                /\ progress' = IF session_id \in sessions
                               THEN MergeAll(progress, r.snaps)
                               ELSE progress
       ELSE /\ dOut' = returned
            /\ UNCHANGED <<dIn, dThr, dRemoved, dSnaps, progress>>
    /\ UNCHANGED <<det, last_progress_update, stop_requested, lastSnap, nStopped,
                   nCompleted, returned, self_frames, dOut2, dHi, dpc>>
    /\ UNCHANGED inVars /\ UNCHANGED auxVars /\ UNCHANGED sessVars

\* ---- initial states ---------------------------------------------------------
AllLow(n) == [p \in Pairs(n) |-> LowSim]

\* which of the two scorers the table is given to: the structural one with
\* the embedding strategy off, or, with it on, either of the two while the
\* other finds every pair different
Modes == {"ssim", "ml_high_ssim_low", "ml_low_ssim_high"}

\* the detector consults one scorer only
DetModes == {"ssim", "ml_high_ssim_low"}

TablesFor(mode, tbl, n) ==
    /\ use_ml = (mode # "ssim")
    /\ ssimSim = IF mode = "ml_high_ssim_low" THEN AllLow(n) ELSE tbl
    /\ mlSim = IF mode = "ml_low_ssim_high" THEN AllLow(n) ELSE tbl

\* min_interval of a request: small values, or the default
Intervals == (0..MaxInterval) \cup {DEFAULT_MIN_FRAME_INTERVAL}

\* CAP_PROP_FRAME_COUNT is what the container header says: nothing (0), the
\* number of frames the decoder then delivers, or one frame less than that
ReportedTotals(src) ==
    {0, Len(src)} \cup (IF Len(src) >= 2 THEN {Len(src) - 1} ELSE {})

\* the progress dictionary /process installs before it starts the thread
StartingProgress ==
    [stage |-> "starting", current_frame |-> 0, total_frames |-> 0,
     percentage |-> 0, frames_detected |-> 0, error |-> <<>>,
     completed |-> FALSE]

\* the progress dictionary of a session just uploaded
IdleProgress == [StartingProgress EXCEPT !.stage = "idle"]

\* 'frames': None and no 'thumbnails' key; None and a missing key are <<>>,
\* a list l is <<l>>; frames_of and thumbnails_of name the run that stored them
NewSession ==
    [frames |-> <<>>, frames_of |-> 0, thumbnails |-> <<>>, thumbnails_of |-> 0]

\* remove_duplicate_frames is not running
NoLoop ==
    [i |-> 0, st |-> [unique |-> <<>>, removed |-> 0, snaps |-> <<>>],
     after_stop |-> 0]

\* no /stop request has been answered since the last /process
NoStop == "none"

\* the thread is not in the middle of a run of single-key writes
NoWrites ==
    [todo |-> <<>>, guarded |-> FALSE, then |-> "none", before |-> <<>>,
     after |-> <<>>]

\* the session is in the table, its thread has no write in progress
SessionAtRest ==
    /\ sessions = {session_id}
    /\ pending = NoWrites
    /\ dd = NoLoop
    /\ stopAck = NoStop

\* no /process request is being handled, 'processing_thread': None
NoRequests ==
    /\ handlers = <<>>
    /\ alive = {}
    /\ processing_thread = <<>>

\* one request has been accepted and nothing of it stored yet
FirstRun ==
    /\ progress = StartingProgress
    /\ session = NewSession
    /\ run = 1

NoDedup ==
    /\ dIn = <<>>
    /\ dThr = DEDUP_SIMILARITY_THRESHOLD
    /\ dOut = <<>>
    /\ dRemoved = 0
    /\ dSnaps = <<>>
    /\ dOut2 = <<>>
    /\ dHi = <<>>

\* inputs drawn from the bounded domains
DrawnInputs ==
    /\ cfg \in [change_threshold : ChangeThresholds,
                min_frame_interval : Intervals,
                frame_skip : 1..MaxSkip]
    /\ openable \in BOOLEAN
    /\ source \in Sources
    /\ ~openable => source = <<>>
    /\ total_frames \in ReportedTotals(source)
    /\ \E mode \in DetModes : \E tbl \in [Pairs(NumImages) -> DetSimLevels] :
          TablesFor(mode, tbl, NumImages)

\* two long sources: 100 identical frames under the default configuration,
\* and 30 frames alternating between two different rasters with frame_skip 3
ScenarioInputs ==
    /\ \/ /\ cfg = [change_threshold |-> 30,
                     min_frame_interval |-> DEFAULT_MIN_FRAME_INTERVAL,
                     frame_skip |-> 1]
          /\ source = [i \in 1..100 |-> 1]
       \/ /\ cfg = [change_threshold |-> 30, min_frame_interval |-> 1,
                     frame_skip |-> 3]
          /\ source = [i \in 1..30 |-> IF i % 2 = 1 THEN 1 ELSE 2]
    /\ openable = TRUE
    /\ total_frames = Len(source)
    /\ TablesFor("ssim", AllLow(NumImages), NumImages)

Init ==
    /\ DrawnInputs \/ ScenarioInputs
    /\ pc = "start"
    /\ det = DetLocals
    /\ last_progress_update = 0
    /\ stop_requested = FALSE
    /\ lastSnap = NoSnapshot
    /\ nStopped = 0
    /\ nCompleted = 0
    /\ returned = <<>>
    /\ self_frames = <<>>
    /\ NoDedup
    /\ dpc = "idle"
    /\ FirstRun
    /\ SessionAtRest
    /\ NoRequests

Next ==
    \/ DetOpen
    \/ DetOpenFail
    \/ RequestStop
    \/ DetStop
    \/ DetEnd
    \/ DetSkip
    \/ DetEarlyExit
    \/ DetScore
    \/ AppRemoveDuplicates

Spec == Init /\ [][Next]_vars

\* the pass runs in a thread of its own that is never starved: every step of
\* extract_frames_with_changes that can be taken eventually is
DetNext ==
    \/ DetOpen
    \/ DetOpenFail
    \/ DetStop
    \/ DetEnd
    \/ DetSkip
    \/ DetEarlyExit
    \/ DetScore

FairSpec == Spec /\ WF_vars(DetNext)

\* ---- remove_duplicate_frames on its own -------------------------------------
\* candidate i of an input list: decode order is list order; at most one
\* candidate has no usable image, or no feature vector
Candidate(i, bad, kind) ==
    [frame_number |-> i - 1, image |-> i,
     usable |-> ~(i = bad /\ kind = "image"),
     feat |-> ~(i = bad /\ kind = "features")]

SparseTables(n) ==
    {t \in [Pairs(n) -> SimLevels] :
        Cardinality({p \in Pairs(n) : t[p] # LowSim}) <= MaxSimilarPairs}

DetectorIdle ==
    /\ cfg = [change_threshold |-> 30, min_frame_interval |-> 1, frame_skip |-> 1]
    /\ openable = TRUE
    /\ source = <<>>
    /\ total_frames = 0
    /\ pc = "idle"
    /\ det = DetLocals
    /\ last_progress_update = 0
    /\ stop_requested = FALSE
    /\ lastSnap = NoSnapshot
    /\ nStopped = 0
    /\ nCompleted = 0
    /\ returned = <<>>
    /\ self_frames = <<>>
    /\ FirstRun
    /\ SessionAtRest
    /\ NoRequests

DedupInit ==
    /\ \E n \in 0..MaxCands :
        /\ \E mode \in Modes : \E tbl \in SparseTables(n) :
              TablesFor(mode, tbl, n)
        /\ \E bad \in 0..n :
           \E kind \in IF use_ml /\ bad # 0 THEN {"image", "features"} ELSE {"image"} :
              dIn = [i \in 1..n |-> Candidate(i, bad, kind)]
    /\ dThr = DEDUP_SIMILARITY_THRESHOLD
    /\ dOut = <<>>
    /\ dRemoved = 0
    /\ dSnaps = <<>>
    /\ dOut2 = <<>>
    /\ dHi = <<>>
    /\ dpc = "input"
    /\ DetectorIdle

\* remove_duplicate_frames(frames, t)
DedupCall ==
    /\ dpc = "input"
    /\ \E t \in DedupThresholds :
          LET r == RemoveDuplicateFrames(dIn, t)
          IN  /\ dThr' = t
              /\ dOut' = r.unique
              /\ dRemoved' = r.removed
              /\ dSnaps' = r.snaps
    /\ dpc' = "once"
    /\ UNCHANGED <<dIn, dOut2, dHi>>
    /\ UNCHANGED inVars /\ UNCHANGED auxVars /\ UNCHANGED detVars /\ UNCHANGED appVars

\* remove_duplicate_frames(remove_duplicate_frames(frames, t), t)
DedupAgain ==
    /\ dpc = "once"
    /\ dOut2' = RemoveDuplicateFrames(dOut, dThr).unique
    /\ dpc' = "twice"
    /\ UNCHANGED <<dIn, dThr, dOut, dRemoved, dSnaps, dHi>>
    /\ UNCHANGED inVars /\ UNCHANGED auxVars /\ UNCHANGED detVars /\ UNCHANGED appVars

\* remove_duplicate_frames(frames, t2) for a t2 above the first threshold
DedupRaised ==
    /\ dpc = "once"
    /\ \E t2 \in DedupThresholds :
          /\ t2 > dThr
          /\ dHi' = RemoveDuplicateFrames(dIn, t2).unique
    /\ dpc' = "raised"
    /\ UNCHANGED <<dIn, dThr, dOut, dRemoved, dSnaps, dOut2>>
    /\ UNCHANGED inVars /\ UNCHANGED auxVars /\ UNCHANGED detVars /\ UNCHANGED appVars

DedupNext ==
    \/ DedupCall
    \/ DedupAgain
    \/ DedupRaised

DedupSpec == DedupInit /\ [][DedupNext]_vars

\* ---- the session of app.py: request handlers and the background thread -----
\* five frames that give three candidates at the closest spacing there is
ThreeCandidates == <<1, 1, 2, 2, 1>>

AppSources == {s \in Sources : Len(s) <= MaxAppFrames} \cup {ThreeCandidates}

\* threshold, min_interval and frame_skip of a /process request
AppConfigs ==
    [change_threshold : ChangeThresholds, min_frame_interval : {1},
     frame_skip : 1..MaxSkip]

\* the dictionary built from get_frame_thumbnail(frame) and the frame's fields
Thumbnail(f) == [frame_number |-> f.frame_number, image |-> f.image]

Thumbnails(frames) == [i \in 1..Len(frames) |-> Thumbnail(frames[i])]

\* validated_frames: the frames that carry a PIL image
Validated(frames) == SelectSeq(frames, HasImage)

\* a list stored in the session that is neither None nor empty
Stored(slot) == slot # <<>> /\ slot[1] # <<>>

AppInit ==
    /\ cfg = [change_threshold |-> 30, min_frame_interval |-> 1, frame_skip |-> 1]
    /\ openable = TRUE
    /\ source \in AppSources
    /\ total_frames = Len(source)
    /\ \E mode \in DetModes : \E tbl \in [Pairs(NumImages) -> DetSimLevels] :
          TablesFor(mode, tbl, NumImages)
    /\ pc = "idle"
    /\ det = DetLocals
    /\ last_progress_update = 0
    /\ stop_requested = FALSE
    /\ lastSnap = NoSnapshot
    /\ nStopped = 0
    /\ nCompleted = 0
    /\ returned = <<>>
    /\ self_frames = <<>>
    /\ NoDedup
    /\ dpc = "idle"
    /\ progress = IdleProgress
    /\ session = NewSession
    /\ run = 0
    /\ SessionAtRest
    /\ NoRequests

\* POST /process when no thread of the session is alive: the progress
\* dictionary is replaced and the thread started; whether the file opens is
\* known when the thread gets to it
ProcessVideo ==
    /\ session_id \in sessions
    /\ pc \in {"idle", "ended"}
    /\ run < MaxRuns
    /\ run' = run + 1
    /\ progress' = StartingProgress
    /\ cfg' \in AppConfigs
    /\ openable' \in BOOLEAN
    /\ pc' = "spawned"
    /\ stopAck' = NoStop
    /\ UNCHANGED <<use_ml, ssimSim, mlSim, source, total_frames>>
    /\ UNCHANGED <<pending, dd, sessions>> /\ UNCHANGED procVars
    /\ UNCHANGED <<det, last_progress_update, stop_requested, lastSnap, nStopped,
                   nCompleted, returned, self_frames, session>>
    /\ UNCHANGED dedupVars

\* process_video_background up to the call of extract_frames_with_changes,
\* and the locals that call starts with
ThreadBegin ==
    /\ pc = "spawned"
    /\ session_id \in sessions
    /\ pc' = "start"
    /\ stop_requested' = FALSE
    /\ det' = DetLocals
    /\ last_progress_update' = 0
    /\ lastSnap' = NoSnapshot
    /\ nStopped' = 0
    /\ nCompleted' = 0
    /\ returned' = <<>>
    /\ self_frames' = <<>>
    /\ dIn' = <<>>
    /\ dThr' = DEDUP_SIMILARITY_THRESHOLD
    /\ dOut' = <<>>
    /\ dRemoved' = 0
    /\ dSnaps' = <<>>
    /\ UNCHANGED <<dOut2, dHi, dpc>>
    /\ UNCHANGED inVars /\ UNCHANGED auxVars /\ UNCHANGED appVars

\* the call of remove_duplicate_frames by the thread, up to its loop; a list
\* of one candidate or none is not passed to it
AppDedupBegin ==
    /\ pc \in {"stopped", "done"}
    /\ IF Len(returned) > 1
       THEN /\ pc' = "deduplicating"
            /\ dIn' = returned
            /\ dThr' = DEDUP_SIMILARITY_THRESHOLD
            /\ dd' = [i |-> 2, st |-> DedupStart(returned), after_stop |-> 0]
            /\ progress' = UpdateProgress(progress, DedupStart(returned).snaps[1])
            /\ UNCHANGED dOut
       ELSE /\ pc' = "deduplicated"
            /\ dOut' = returned
            /\ UNCHANGED <<dIn, dThr, dd, progress>>
    /\ UNCHANGED <<det, last_progress_update, stop_requested, lastSnap, nStopped,
                   nCompleted, returned, self_frames, dOut2, dHi, dpc,
                   dRemoved, dSnaps>>
    /\ UNCHANGED <<pending, stopAck, sessions>> /\ UNCHANGED procVars
    /\ UNCHANGED inVars /\ UNCHANGED sessVars

\* one candidate of the loop; after_stop counts the candidates compared
\* since stop_requested was found set
AppDedupStep ==
    /\ pc = "deduplicating"
    /\ dd.i <= Len(dIn)
    /\ LET st == DedupIter(dIn, dThr, dd.i, dd.st)
       IN  /\ dd' = [i |-> dd.i + 1, st |-> st,
                     after_stop |-> IF stop_requested THEN dd.after_stop + 1 ELSE 0]
           /\ progress' = IF Len(st.snaps) > Len(dd.st.snaps)
                          THEN UpdateProgress(progress, st.snaps[Len(st.snaps)])
                          ELSE progress
    /\ UNCHANGED <<pc, det, last_progress_update, stop_requested, lastSnap,
                   nStopped, nCompleted, returned, self_frames>>
    /\ UNCHANGED <<pending, stopAck, sessions>> /\ UNCHANGED procVars
    /\ UNCHANGED inVars /\ UNCHANGED sessVars /\ UNCHANGED dedupVars

\* the last snapshot of the call and its return
AppDedupEnd ==
    /\ pc = "deduplicating"
    /\ dd.i > Len(dIn)
    /\ pc' = "deduplicated"
    /\ LET r == DedupFinish(dIn, dd.st)
       IN  /\ dOut' = r.unique
           /\ dRemoved' = r.removed
           /\ dSnaps' = r.snaps
           /\ progress' = UpdateProgress(progress, r.snaps[Len(r.snaps)])
    /\ dd' = NoLoop
    /\ UNCHANGED <<det, last_progress_update, stop_requested, lastSnap, nStopped,
                   nCompleted, returned, self_frames, dIn, dThr, dOut2, dHi, dpc>>
    /\ UNCHANGED <<pending, stopAck, sessions>> /\ UNCHANGED procVars
    /\ UNCHANGED inVars /\ UNCHANGED sessVars

\* the session is deleted between the test `session_id in sessions` and the
\* lookup sessions[session_id] of should_stop or update_progress: the
\* KeyError leaves the detector at that frame boundary
DetKeyError ==
    /\ pc = "scanning"
    /\ session_id \notin sessions
    /\ pc' = "raised"
    /\ UNCHANGED <<det, last_progress_update, stop_requested, lastSnap, nStopped,
                   nCompleted, returned, self_frames>>
    /\ UNCHANGED inVars /\ UNCHANGED auxVars /\ UNCHANGED dedupVars
    /\ UNCHANGED appVars

\* session = sessions.get(session_id); if not session: return
ThreadNoSession ==
    /\ pc = "spawned"
    /\ session_id \notin sessions
    /\ pc' = "ended"
    /\ UNCHANGED <<det, last_progress_update, stop_requested, lastSnap, nStopped,
                   nCompleted, returned, self_frames>>
    /\ UNCHANGED inVars /\ UNCHANGED auxVars /\ UNCHANGED dedupVars
    /\ UNCHANGED appVars

\* session['frames'] = validated_frames, or [] when there are none
AppStoreFrames ==
    /\ pc = "deduplicated"
    /\ pc' = "stored"
    /\ session' = [session EXCEPT !.frames = <<Validated(dOut)>>,
                                  !.frames_of = run]
    /\ UNCHANGED <<progress, run>>
    /\ UNCHANGED <<det, last_progress_update, stop_requested, lastSnap, nStopped,
                   nCompleted, returned, self_frames>>
    /\ UNCHANGED inVars /\ UNCHANGED auxVars /\ UNCHANGED dedupVars

\* sessions[session_id]['progress'][key] = value, one statement per key, of
\* the stop branch; the deletion of 'error' and its assignment of None both
\* leave the key without a message
StoppedWrites ==
    <<[stage |-> "stopped"], [stopped |-> TRUE],
      [message |-> "Processing stopped by user"], [error |-> <<>>]>>

\* session['progress']['stage'] = ...; session['progress']['percentage'] = 90.0
ThumbnailWrites == <<[stage |-> "generating_thumbnails"], [percentage |-> 90]>>

\* the three assignments that end a run
CompletedWrites ==
    <<[stage |-> "completed"], [percentage |-> 100], [completed |-> TRUE]>>

\* the two assignments of the except clause
ErrorWrites == <<[error |-> <<"message">>], [stage |-> "error"]>>

\* the thread reaches a run of single-key assignments to the dictionary
\* `base`; `guarded` when they go through sessions[session_id], `then` is
\* where the thread is after the last of them
BeginWrites(base, writes, guarded, then) ==
    /\ pc' = "writing"
    /\ pending' = [todo |-> writes, guarded |-> guarded, then |-> then,
                   before |-> <<base>>, after |-> <<MergeAll(base, writes)>>]

\* one of those assignments; sessions[session_id] raises KeyError when the
\* session is gone, which ends the thread
AppWriteField ==
    /\ pc = "writing"
    /\ IF pending.guarded /\ session_id \notin sessions
       THEN /\ pc' = "ended"
            /\ pending' = NoWrites
            /\ UNCHANGED progress
       ELSE /\ progress' = Merge(progress, Head(pending.todo))
            /\ IF Len(pending.todo) = 1
               THEN /\ pc' = pending.then
                    /\ pending' = NoWrites
               ELSE /\ pc' = pc
                    /\ pending' = [pending EXCEPT !.todo = Tail(@)]
    /\ UNCHANGED sessVars
    /\ UNCHANGED <<det, last_progress_update, stop_requested, lastSnap, nStopped,
                   nCompleted, returned, self_frames>>
    /\ UNCHANGED <<dd, stopAck, sessions>> /\ UNCHANGED procVars
    /\ UNCHANGED inVars /\ UNCHANGED dedupVars

\* the branch taken when stop_requested is set after the frames are stored:
\* nothing is done for a session that is gone
AppStopped ==
    /\ pc = "stored"
    /\ stop_requested
    /\ IF session_id \in sessions
       THEN /\ session' = IF Stored(session.frames)
                          THEN [session EXCEPT
                                  !.thumbnails = <<Thumbnails(session.frames[1])>>,
                                  !.thumbnails_of = run]
                          ELSE session
            /\ BeginWrites(progress, StoppedWrites, TRUE, "ended")
       ELSE /\ pc' = "ended"
            /\ UNCHANGED <<session, pending>>
    /\ UNCHANGED <<progress, run>>
    /\ UNCHANGED <<det, last_progress_update, stop_requested, lastSnap, nStopped,
                   nCompleted, returned, self_frames>>
    /\ UNCHANGED <<dd, stopAck, sessions>> /\ UNCHANGED procVars
    /\ UNCHANGED inVars /\ UNCHANGED dedupVars

\* stage 'generating_thumbnails' at 90 percent
AppBeginThumbnails ==
    /\ pc = "stored"
    /\ ~stop_requested
    /\ BeginWrites(progress, ThumbnailWrites, FALSE, "thumbnails")
    /\ UNCHANGED appVars
    /\ UNCHANGED <<det, last_progress_update, stop_requested, lastSnap, nStopped,
                   nCompleted, returned, self_frames>>
    /\ UNCHANGED <<dd, stopAck, sessions>> /\ UNCHANGED procVars
    /\ UNCHANGED inVars /\ UNCHANGED dedupVars

\* the update made when the last thumbnail of the pool is done
PoolSnapshot(total) ==
    [stage |-> "generating_thumbnails", percentage |-> 100,
     frames_detected |-> total]

\* the thread pool and what follows it: ThreadPoolExecutor(max_workers=0)
\* raises ValueError when there is no frame; else every thumbnail is made,
\* the list stored and the progress set to 'completed' key by key
AppGenerateThumbnails ==
    /\ pc = "thumbnails"
    /\ IF dOut = <<>>
       THEN /\ pc' = "raised"
            /\ UNCHANGED <<progress, session, pending>>
       ELSE /\ session' = [session EXCEPT !.thumbnails = <<Thumbnails(dOut)>>,
                                          !.thumbnails_of = run]
            /\ progress' = UpdateProgress(progress, PoolSnapshot(Len(dOut)))
            /\ BeginWrites(progress', CompletedWrites, FALSE, "ended")
    /\ UNCHANGED run
    /\ UNCHANGED <<det, last_progress_update, stop_requested, lastSnap, nStopped,
                   nCompleted, returned, self_frames>>
    /\ UNCHANGED <<dd, stopAck, sessions>> /\ UNCHANGED procVars
    /\ UNCHANGED inVars /\ UNCHANGED dedupVars

\* except Exception as e: if session_id in sessions: progress['error'] = str(e);
\* progress['stage'] = 'error'
AppExcept ==
    /\ pc = "raised"
    /\ IF session_id \in sessions
       THEN BeginWrites(progress, ErrorWrites, TRUE, "ended")
       ELSE /\ pc' = "ended"
            /\ UNCHANGED pending
    /\ UNCHANGED appVars
    /\ UNCHANGED <<det, last_progress_update, stop_requested, lastSnap, nStopped,
                   nCompleted, returned, self_frames>>
    /\ UNCHANGED <<dd, stopAck, sessions>> /\ UNCHANGED procVars
    /\ UNCHANGED inVars /\ UNCHANGED dedupVars

NoFrames == [has |-> FALSE, frames |-> <<>>, of |-> 0]

\* response['frames'] of GET /progress.  session['processor'] is set whenever
\* a non-empty list is stored in session['frames'], so thumbnails can be made
ProgressFrames ==
    IF progress.completed \/ progress.stage = "stopped"
    THEN IF Stored(session.thumbnails)
         THEN [has |-> TRUE, frames |-> session.thumbnails[1],
               of |-> session.thumbnails_of]
         ELSE IF Stored(session.frames)
         THEN [has |-> TRUE, frames |-> Thumbnails(session.frames[1]),
               of |-> session.frames_of]
         ELSE NoFrames
    ELSE NoFrames

\* GET /progress; the thumbnails it makes on the fly are stored in the session
GetProgress ==
    /\ session_id \in sessions
    /\ session' = IF /\ progress.completed \/ progress.stage = "stopped"
                     /\ ~Stored(session.thumbnails)
                     /\ Stored(session.frames)
                  THEN [session EXCEPT
                          !.thumbnails = <<Thumbnails(session.frames[1])>>,
                          !.thumbnails_of = session.frames_of]
                  ELSE session
    /\ UNCHANGED <<progress, run>>
    /\ UNCHANGED detVars /\ UNCHANGED inVars /\ UNCHANGED auxVars /\ UNCHANGED dedupVars

\* what GET /frames returns: an error unless session['frames'] is a
\* non-empty list
FramesEndpoint ==
    IF Stored(session.frames)
    THEN [has |-> TRUE, frames |-> Thumbnails(session.frames[1]),
          of |-> session.frames_of]
    ELSE NoFrames

\* POST /cleanup: the uploaded file is removed, the stored processor cleared
\* and the session deleted from the table
CleanupSession ==
    /\ session_id \in sessions
    /\ sessions' = sessions \ {session_id}
    /\ openable' = FALSE
    /\ self_frames' = IF Stored(session.frames) /\ session.frames_of = run
                       THEN <<>> ELSE self_frames
    /\ UNCHANGED <<cfg, use_ml, ssimSim, mlSim, source, total_frames>>
    /\ UNCHANGED <<pc, det, last_progress_update, stop_requested, lastSnap,
                   nStopped, nCompleted, returned>>
    /\ UNCHANGED <<pending, dd, stopAck>> /\ UNCHANGED procVars
    /\ UNCHANGED dedupVars /\ UNCHANGED appVars

\* the steps of process_video_background
ThreadNext ==
    \/ ThreadBegin
    \/ ThreadNoSession
    \/ DetOpen
    \/ DetOpenFail
    \/ DetStop
    \/ DetKeyError
    \/ DetEnd
    \/ DetSkip
    \/ DetEarlyExit
    \/ DetScore
    \/ AppDedupBegin
    \/ AppDedupStep
    \/ AppDedupEnd
    \/ AppStoreFrames
    \/ AppStopped
    \/ AppBeginThumbnails
    \/ AppGenerateThumbnails
    \/ AppExcept
    \/ AppWriteField

AppNext ==
    \/ ProcessVideo
    \/ CleanupSession
    \/ ThreadBegin
    \/ ThreadNoSession
    \/ StopProcessing
    \/ DetOpen
    \/ DetOpenFail
    \/ DetStop
    \/ DetKeyError
    \/ DetEnd
    \/ DetSkip
    \/ DetEarlyExit
    \/ DetScore
    \/ AppDedupBegin
    \/ AppDedupStep
    \/ AppDedupEnd
    \/ AppStoreFrames
    \/ AppStopped
    \/ AppBeginThumbnails
    \/ AppGenerateThumbnails
    \/ AppExcept
    \/ AppWriteField
    \/ GetProgress

AppSpec == AppInit /\ [][AppNext]_vars

\* ---- /process requests handled concurrently ----------------------------------
\* The development server handles every request in a thread of its own, and
\* process_video takes no lock: its statements interleave with those of
\* another /process request.  A background thread is taken as alive from
\* thread.start() until it returns, and is named after its request.
Requests == 1..MaxRequests

ProcessInit ==
    /\ cfg = [change_threshold |-> 30, min_frame_interval |-> 1, frame_skip |-> 1]
    /\ openable = TRUE
    /\ source = <<>>
    /\ total_frames = 0
    /\ TablesFor("ssim", AllLow(NumImages), NumImages)
    /\ pc = "idle"
    /\ det = DetLocals
    /\ last_progress_update = 0
    /\ stop_requested = FALSE
    /\ lastSnap = NoSnapshot
    /\ nStopped = 0
    /\ nCompleted = 0
    /\ returned = <<>>
    /\ self_frames = <<>>
    /\ NoDedup
    /\ dpc = "idle"
    /\ progress = IdleProgress
    /\ session = NewSession
    /\ run = 0
    /\ SessionAtRest
    /\ handlers = [r \in Requests |-> "arrived"]
    /\ alive = {}
    /\ processing_thread = <<>>

\* session.get('processing_thread') and session['processing_thread'].is_alive()
IsProcessing == processing_thread # <<>> /\ processing_thread[1] \in alive

\* what a step of a /process handler leaves alone
ProcessFrame ==
    /\ UNCHANGED detVars /\ UNCHANGED inVars /\ UNCHANGED dedupVars
    /\ UNCHANGED threadVars /\ UNCHANGED webVars /\ UNCHANGED session

\* 'Processing already in progress', 400
ProcessReject ==
    \E r \in Requests :
        /\ handlers[r] = "arrived"
        /\ IsProcessing
        /\ handlers' = [handlers EXCEPT ![r] = "rejected"]
        /\ UNCHANGED <<alive, processing_thread, progress, run>>
        /\ ProcessFrame

\* the check finds no live thread
ProcessCheck ==
    \E r \in Requests :
        /\ handlers[r] = "arrived"
        /\ ~IsProcessing
        /\ handlers' = [handlers EXCEPT ![r] = "checked"]
        /\ UNCHANGED <<alive, processing_thread, progress, run>>
        /\ ProcessFrame

\* session['progress'] = {...}; thread = threading.Thread(...); thread.start()
ProcessStart ==
    \E r \in Requests :
        /\ handlers[r] = "checked"
        /\ handlers' = [handlers EXCEPT ![r] = "started"]
        /\ progress' = StartingProgress
        /\ alive' = alive \cup {r}
        /\ run' = run + 1
        /\ UNCHANGED processing_thread
        /\ ProcessFrame

\* session['processing_thread'] = thread; return success
ProcessStore ==
    \E r \in Requests :
        /\ handlers[r] = "started"
        /\ handlers' = [handlers EXCEPT ![r] = "answered"]
        /\ processing_thread' = <<r>>
        /\ UNCHANGED <<alive, progress, run>>
        /\ ProcessFrame

\* process_video_background returns
ThreadExit ==
    \E r \in Requests :
        /\ r \in alive
        /\ alive' = alive \ {r}
        /\ UNCHANGED <<handlers, processing_thread, progress, run>>
        /\ ProcessFrame

ProcessNext ==
    \/ ProcessReject
    \/ ProcessCheck
    \/ ProcessStart
    \/ ProcessStore
    \/ ThreadExit

ProcessSpec == ProcessInit /\ [][ProcessNext]_vars

\* ---- properties of the detector ---------------------------------------------
Terminal == {"stopped", "done"}

\* C1 (as claimed): an uninterrupted run over a non-empty source returns a
\* list whose first element is the first processed frame, decoded index 0,
\* whatever change_threshold, min_frame_interval (0 included) and frame_skip.
C1_FirstFrameIsFirstCandidate ==
    (pc = "done" /\ Len(source) > 0) =>
        /\ Len(returned) >= 1
        /\ returned[1].frame_number = 0

\* C2: the list a run returns when it is stopped at a frame boundary is a
\* prefix of the list the uninterrupted run over the same source with the
\* same configuration and similarity tables returns.
C2_StoppedIsPrefix ==
    pc = "stopped" => IsPrefix(returned, Uninterrupted)

\* C2 witness: a run stopped with some candidates found and some still to come
C2_Witness ==
    /\ pc = "stopped"
    /\ Len(returned) >= 1
    /\ Len(returned) < Len(Uninterrupted)

\* C3: when the stop check is true at a frame boundary the pass emits one
\* 'stopped' snapshot whose frames_detected is the length of the returned
\* list and which has no error key, returns the candidates collected so far
\* without raising, and reads no further frame; also before the first read.
C3_StoppedState ==
    pc = "stopped" =>
        /\ lastSnap.stage = "stopped"
        /\ lastSnap.stopped
        /\ "error" \notin DOMAIN lastSnap
        /\ lastSnap.frames_detected = Len(returned)
        /\ lastSnap.current_frame = det.frame_count
        /\ nStopped = 1
        /\ returned = det.frames

C3_NoReadOnceStopRequested ==
    (stop_requested /\ pc = "scanning") =>
        /\ pc' \in {"scanning", "stopped"}
        /\ det' = det
        /\ pc' = "scanning" => lastSnap' = lastSnap

C3_NothingAfterStop ==
    (pc \in {"stopped", "deduplicated"} /\ nStopped = 1) =>
        /\ det' = det
        /\ lastSnap' = lastSnap
        /\ nStopped' = 1
        /\ returned' = returned
        /\ pc' # "raised"

C3_StopIsFinal ==
    /\ [](C3_StoppedState)
    /\ [][C3_NoReadOnceStopRequested]_vars
    /\ [][C3_NothingAfterStop]_vars

\* C3 witness: stopped with candidates found and frames left unread
C3_Witness ==
    /\ pc = "stopped"
    /\ Len(returned) >= 1
    /\ det.frame_count < Len(source)

\* C3 witness for the empty case is reachable too
C3_WitnessEmpty ==
    /\ pc = "stopped"
    /\ det.frame_count = 0
    /\ Len(source) > 0
    /\ returned = <<>>

\* C4: the candidate list is strictly increasing in frame_number in every
\* state of the detector, and so is what remove_duplicate_frames returns for
\* the list the detector returned.
C4_StrictlyIncreasing ==
    /\ StrictlyIncreasing(det.frames)
    /\ StrictlyIncreasing(returned)
    /\ pc = "deduplicated" => StrictlyIncreasing(dOut)

\* C4 witness: a deduplication that kept several candidates and removed some
C4_Witness ==
    /\ pc = "deduplicated"
    /\ Len(dIn) >= 3
    /\ Len(dOut) >= 2
    /\ Len(dOut) < Len(dIn)

\* processed_frame_count when the frame of decoded index n was evaluated
ProcessedCountAt(n) == n \div cfg.frame_skip + 1

\* C5: two consecutive candidates are at least
\* max(1, min_frame_interval // frame_skip) processed frames apart.
C5_MinimumSpacing ==
    \A i \in 1..(Len(det.frames) - 1) :
        ProcessedCountAt(det.frames[i + 1].frame_number)
          - ProcessedCountAt(det.frames[i].frame_number)
            >= Max(1, cfg.min_frame_interval \div cfg.frame_skip)

\* C5 witness: two candidates under a spacing of more than one processed frame
C5_Witness ==
    /\ Len(det.frames) >= 2
    /\ cfg.min_frame_interval \div cfg.frame_skip >= 2

\* C10: a pass over a source that opened ends in exactly one terminal state:
\* done, its last snapshot 'completed' at 100 percent, or stopped, its last
\* snapshot 'stopped'; it emits one terminal snapshot and nothing after it.
\* It gets there: until then a step of the pass is always possible, and every
\* step that is not the last reads one more frame of the finite source.
C10_TerminalState ==
    /\ nStopped + nCompleted <= 1
    /\ pc \in {"start", "scanning", "raised"} => nStopped + nCompleted = 0
    /\ pc = "done" =>
          /\ lastSnap.stage = "completed"
          /\ lastSnap.percentage = 100
          /\ nCompleted = 1
    /\ pc = "stopped" =>
          /\ lastSnap.stage = "stopped"
          /\ nStopped = 1
    /\ pc = "deduplicated" =>
          /\ nStopped + nCompleted = 1
          /\ lastSnap.stage = IF nStopped = 1 THEN "stopped" ELSE "completed"
    /\ openable => pc # "raised"

C10_CanStep ==
    /\ det.frame_count <= Len(source)
    /\ pc \in {"start", "scanning"} => ENABLED DetNext

C10_StepReadsOrEnds ==
    (pc = "scanning" /\ <<pc, det, lastSnap>> # <<pc', det', lastSnap'>>) =>
        \/ pc' \in Terminal /\ det' = det
        \/ pc' = "scanning" /\ det'.frame_count = det.frame_count + 1

C10_NothingAfterTerminal ==
    pc \in Terminal =>
        /\ lastSnap' = lastSnap
        /\ nStopped' = nStopped
        /\ nCompleted' = nCompleted
        /\ pc' \in {pc, "deduplicated"}

C10_OneTerminalState ==
    /\ [](C10_TerminalState /\ C10_CanStep)
    /\ [][C10_StepReadsOrEnds]_vars
    /\ [][C10_NothingAfterTerminal]_vars

\* under the fairness of FairSpec the terminal state is reached
C10_Terminates == openable => <>(pc \in Terminal)

\* C10 witness: both terminal states are reached, done with no total reported
C10_Witness ==
    /\ pc = "done"
    /\ total_frames = 0
    /\ Len(source) >= 2

\* ---- properties of the deduplicator -----------------------------------------
Range(s) == {s[i] : i \in 1..Len(s)}

\* s is t with some elements left out
RECURSIVE IsSubsequence(_, _)
IsSubsequence(s, t) ==
    IF s = <<>> THEN TRUE
    ELSE IF t = <<>> THEN FALSE
    ELSE IF Head(s) = Head(t) THEN IsSubsequence(Tail(s), Tail(t))
    ELSE IsSubsequence(s, Tail(t))

\* C6: for a non-empty input and any threshold remove_duplicate_frames
\* returns a subsequence of its input that starts with the first candidate.
C6_SubsequenceKeepingFirst ==
    (dpc # "input" /\ Len(dIn) >= 1) =>
        /\ IsSubsequence(dOut, dIn)
        /\ Len(dOut) >= 1
        /\ dOut[1] = dIn[1]

\* C6 witness: a call that kept some candidates after the first and removed others
C6_Witness ==
    /\ dpc = "once"
    /\ Len(dOut) >= 2
    /\ Len(dOut) < Len(dIn)

\* the similarity of two candidates under the scorer in effect: the embedding
\* one when it is on and both have feature vectors, else the structural one;
\* a candidate without an image is similar to nothing
C7_Similarity(f, g) ==
    IF ~(f.usable /\ g.usable) THEN 0
    ELSE IF use_ml /\ f.feat /\ g.feat THEN Sim(mlSim, f.image, g.image)
    ELSE Sim(ssimSim, f.image, g.image)

\* C7 (as claimed): a candidate other than the first is discarded if and only
\* if its similarity to a frame kept before it is >= similarity_threshold.
C7_DiscardedIffSimilarToKept ==
    dpc = "once" =>
        \A i \in 2..Len(dIn) :
            (dIn[i] \notin Range(dOut)) <=>
                \E k \in 1..(i - 1) :
                    /\ dIn[k] \in Range(dOut)
                    /\ C7_Similarity(dIn[i], dIn[k]) >= dThr

\* C8: remove_duplicate_frames applied to its own output returns it unchanged.
C8_Idempotent ==
    dpc = "twice" => dOut2 = dOut

\* C8 witness: a second call on an output from which the first removed frames
C8_Witness ==
    /\ dpc = "twice"
    /\ Len(dOut) >= 2
    /\ Len(dOut) < Len(dIn)

\* C9 (as claimed): for thresholds t1 <= t2 the call with t2 returns at least
\* as many frames as the call with t1 on the same input.
C9_MonotoneInThreshold ==
    dpc = "raised" => Len(dHi) >= Len(dOut)

\* C9 (amended): the same, for inputs of at most three candidates.
C9_MonotoneUpToThree ==
    (dpc = "raised" /\ Len(dIn) <= 3) => Len(dHi) >= Len(dOut)

\* C9 witness: three candidates, more of them kept under the higher threshold
C9_Witness ==
    /\ dpc = "raised"
    /\ Len(dIn) = 3
    /\ Len(dHi) > Len(dOut)

\* ---- properties of the progress snapshots -----------------------------------
\* the percentages of the snapshots remove_duplicate_frames emitted, in order
DedupPercentagesInOrder ==
    \A i \in 1..Len(dSnaps) :
        /\ dSnaps[i].percentage \in 0..100
        /\ i > 1 => dSnaps[i].percentage >= dSnaps[i - 1].percentage

C12_DetectorStep ==
    lastSnap.stage # "none" => lastSnap'.percentage >= lastSnap.percentage

\* C12 (as claimed): within one detector pass and within one deduplication
\* pass the percentages of successive snapshots never decrease and lie in
\* [0,100], whatever total frame count the source reports.
C12_PercentagesMonotoneInRange ==
    /\ [](lastSnap.percentage \in 0..100 /\ DedupPercentagesInOrder)
    /\ [][C12_DetectorStep]_vars

\* ---- fail-open policy and final snapshot of the deduplicator ----------------
\* C14 (as claimed): a candidate whose image is unusable is never dropped
\* by remove_duplicate_frames: it is in the returned list.
C14_UnusableRetained ==
    dpc = "once" =>
        \A i \in 1..Len(dIn) : ~HasImage(dIn[i]) => dIn[i] \in Range(dOut)

\* C20 (as claimed): every call of remove_duplicate_frames emits as its
\* last snapshot stage 'removing_duplicates' at 100 percent whose
\* duplicates_removed is the input size minus the returned size and whose
\* frames_after_dedup is the returned size, for every input size.
C20_FinalSnapshotAccounts ==
    dpc = "once" =>
        /\ Len(dSnaps) >= 1
        /\ dSnaps[Len(dSnaps)].stage = "removing_duplicates"
        /\ dSnaps[Len(dSnaps)].percentage = 100
        /\ dSnaps[Len(dSnaps)].duplicates_removed = Len(dIn) - Len(dOut)
        /\ dSnaps[Len(dSnaps)].frames_after_dedup = Len(dOut)

\* ---- scenarios of the detector ----------------------------------------------
\* no frame of the source differs from any other by more than change_threshold
NoFrameDiffers ==
    \A i \in 1..Len(source) : \A j \in 1..Len(source) :
        Difference(source[i], source[j]) <= cfg.change_threshold

\* C16: over a non-empty source none of whose frames differs from another by
\* more than change_threshold an uninterrupted run returns exactly one
\* candidate, the first frame, for every min_frame_interval >= 1 and every
\* frame_skip, and deduplicating that result removes nothing.
C16_OneCandidateNothingRemoved ==
    (Len(source) >= 1 /\ cfg.min_frame_interval >= 1 /\ NoFrameDiffers) =>
        /\ pc = "done" => returned = <<FrameData(0, source[1])>>
        /\ (pc = "deduplicated" /\ nCompleted = 1) =>
              /\ dOut = returned
              /\ Len(dOut) = 1
              /\ dRemoved = 0

\* C16 witness: the run over 100 identical frames, deduplicated
C16_Witness ==
    /\ pc = "deduplicated"
    /\ nCompleted = 1
    /\ Len(source) = 100
    /\ NoFrameDiffers
    /\ Len(dOut) = 1

\* the source alternates between two rasters that differ by more than the
\* threshold
Alternating ==
    /\ Len(source) >= 2
    /\ \A i \in 1..(Len(source) - 1) :
          /\ source[i + 1] # source[i]
          /\ Difference(source[i + 1], source[i]) > cfg.change_threshold
    /\ \A i \in 1..(Len(source) - 2) : source[i + 2] = source[i]

C17_ScoredStep ==
    (/\ Alternating
     /\ cfg.change_threshold = 30
     /\ cfg.min_frame_interval = 1
     /\ cfg.frame_skip = 1
     /\ pc = "scanning"
     /\ det' # det
     /\ ~IsSkipped(det)
     /\ ~IsEarlyExit(det)) =>
        Len(det'.frames) = Len(det.frames) + 1

\* C17 (as claimed): with change_threshold 0.3, min_frame_interval 1 and
\* frame_skip 1 on a source alternating between two very different frames,
\* every frame the minimum-spacing check lets through to scoring is accepted.
C17_EveryScoredFrameAccepted == [][C17_ScoredStep]_vars

\* the number of decoded frames below index n whose index frame_skip divides
EvaluatedBelow(n) == Cardinality({i \in 0..(n - 1) : i % cfg.frame_skip = 0})

C18_Counts ==
    /\ det.processed_frame_count = EvaluatedBelow(det.frame_count)
    /\ (pc = "done" /\ Len(source) = 30 /\ cfg.frame_skip = 3) =>
          det.processed_frame_count = 10

C18_Step ==
    (pc = "scanning" /\ det' # det) =>
        /\ det'.frame_count = det.frame_count + 1
        /\ IF det.frame_count % cfg.frame_skip = 0
           THEN det'.processed_frame_count = det.processed_frame_count + 1
           ELSE /\ det' = [det EXCEPT !.frame_count = @ + 1]
                /\ lastSnap' = lastSnap
                /\ last_progress_update' = last_progress_update

\* C18: the frames counted as processed are exactly the decoded frames whose
\* index frame_skip divides, taken in increasing order; any other frame
\* changes nothing but the decoded-frame counter; a 30-frame source with
\* frame_skip 3 has exactly 10 frames evaluated, indices 0, 3, ..., 27.
C18_EvaluatedAreMultiplesOfSkip ==
    /\ [](C18_Counts)
    /\ [][C18_Step]_vars

\* C18 witness: the whole 30-frame source read with frame_skip 3
C18_Witness ==
    /\ pc = "done"
    /\ Len(source) = 30
    /\ cfg.frame_skip = 3
    /\ det.processed_frame_count = 10
    /\ det.frame_count = 30

\* C19: over a non-empty stream with min_frame_interval >= the number of
\* frames, an uninterrupted run returns exactly one candidate, the first
\* frame, for every frame_skip and every content.
C19_OnlyFirstFrame ==
    (pc = "done" /\ Len(source) >= 1 /\ cfg.min_frame_interval >= Len(source)) =>
        /\ Len(returned) = 1
        /\ returned[1].frame_number = 0

\* C19 witness: such a run over frames that differ, evaluated every second frame
C19_Witness ==
    /\ pc = "done"
    /\ cfg.min_frame_interval >= Len(source)
    /\ cfg.frame_skip = 2
    /\ Len(source) >= 5
    /\ Difference(source[1], source[3]) > cfg.change_threshold
    /\ Len(returned) = 1

\* ---- properties of the session ----------------------------------------------
\* position of a stage in initializing -> extracting -> removing_duplicates ->
\* generating_previews -> completed; the code calls the fourth stage
\* 'generating_thumbnails'; 'idle' and 'starting' are the values the
\* progress holds before a run writes its first stage
StageRank(stage) ==
    CASE stage = "idle" -> 0
      [] stage = "starting" -> 0
      [] stage = "initializing" -> 1
      [] stage = "extracting" -> 2
      [] stage = "removing_duplicates" -> 3
      [] stage = "generating_thumbnails" -> 4
      [] stage = "completed" -> 5
      [] OTHER -> 6

C11_Vocabulary ==
    progress.stage \in {"idle", "starting", "initializing", "extracting",
                        "removing_duplicates", "generating_thumbnails",
                        "completed", "stopped", "error"}

C11_StageStep ==
    (run' = run /\ progress'.stage # progress.stage) =>
        /\ progress.stage \notin {"completed", "stopped"}
        /\ \/ progress'.stage \in {"stopped", "error"}
           \/ StageRank(progress'.stage) > StageRank(progress.stage)

\* C11 (as claimed): over one run the stages written to the progress state
\* only move forward through the vocabulary, 'completed' and 'stopped' are
\* terminal, and no stage outside the vocabulary, 'stopped' and 'error' is
\* written.
C11_StagesOnlyMoveForward ==
    /\ [](C11_Vocabulary)
    /\ [][C11_StageStep]_vars

\* C13 (as claimed): when the source cannot be opened the pass reads no
\* frame, the session ends in stage 'error' with an error message, and no
\* frame list is available to consumers, from GET /progress or GET /frames,
\* also when an earlier run of the session had produced frames.
C13_NoFramesAfterOpenFailure ==
    (~openable /\ pc \in {"raised", "ended"}) =>
        /\ det.frame_count = 0
        /\ returned = <<>>
        /\ pc = "ended" =>
              /\ progress.stage = "error"
              /\ progress.error # <<>>
              /\ ~ProgressFrames.has
              /\ ~FramesEndpoint.has

\* the frames the current run has found and retained so far
RunFrames ==
    IF pc \in {"deduplicated", "stored", "thumbnails", "ended"}
    THEN dOut
    ELSE det.frames

\* C15 (as claimed): whenever GET /progress reports stage 'stopped' the
\* frames of the same response are those the run has found and retained so
\* far: present when the run has found frames, and never those of an
\* earlier run.
C15_StoppedResponseHasRunFrames ==
    progress.stage = "stopped" =>
        /\ RunFrames # <<>> => ProgressFrames.has
        /\ ProgressFrames.has =>
              /\ ProgressFrames.of = run
              /\ ProgressFrames.frames = Thumbnails(RunFrames)

\* ---- comparison reference, spacing boundary and snapshot cadence ------------
C23_ReferenceStep ==
    (pc = "scanning" /\ det'.prev # det.prev) =>
        /\ Len(det'.frames) = Len(det.frames) + 1
        /\ det'.prev = <<det'.frames[Len(det'.frames)].image>>

\* C23 (as claimed): the comparison reference changes only when a frame is
\* accepted as a candidate, and then to that candidate's raster; a scored
\* frame that is not accepted leaves it unchanged.
C23_ReferenceIsLastCandidate == [][C23_ReferenceStep]_vars

C24_EarlyExitStep ==
    (/\ pc = "scanning"
     /\ det' # det
     /\ ~IsSkipped(det)
     /\ det' = EarlyExit(det)) =>
        det'.processed_frame_count - det.last_change_processed_frame
            < MinProcessedInterval

\* C24 (as claimed): a processed frame is skipped by the early-exit check
\* only if fewer than min_processed_interval processed frames have elapsed
\* since the last accepted candidate; the processed frame exactly
\* min_processed_interval after a candidate is scored.
C24_SkippedOnlyWithinInterval == [][C24_EarlyExitStep]_vars

C26_CadenceStep ==
    (/\ pc = "scanning"
     /\ det'.processed_frame_count # det.processed_frame_count
     /\ det'.processed_frame_count % PROGRESS_EVERY = 0) =>
        lastSnap' = Snapshot("extracting", det'.frame_count,
                             Percentage(det'.frame_count),
                             Len(det'.frames), FALSE)

\* C26 (as claimed): whenever the processed-frame count reaches a multiple
\* of 10 an 'extracting' snapshot is emitted, whether or not the frame was
\* scored, carrying the raw index and the number of candidates so far.
C26_SnapshotEveryTenProcessed == [][C26_CadenceStep]_vars

\* C27 (as claimed): with the embedding strategy on and feature vectors for
\* every candidate, a candidate whose embedding similarity to every frame
\* kept before it is below the threshold is kept.
C27_EmbeddingAloneDecides ==
    (/\ dpc = "once"
     /\ use_ml
     /\ \A i \in 1..Len(dIn) : HasFeatures(dIn[i])) =>
        \A i \in 2..Len(dIn) :
            (\A k \in 1..(i - 1) :
                dIn[k] \in Range(dOut) =>
                    Sim(mlSim, dIn[i].image, dIn[k].image) < dThr)
                => dIn[i] \in Range(dOut)

\* ---- properties of the session under concurrent requests -----------------------
\* C29 (as claimed): a run that is not interrupted, over a source that opens,
\* ends with stage 'completed' and the completed flag set, whatever the
\* number of frames it retained, zero included.
C29_UninterruptedRunCompletes ==
    (/\ pc = "ended"
     /\ run >= 1
     /\ openable
     /\ session_id \in sessions
     /\ ~stop_requested) =>
        (progress.stage = "completed" /\ progress.completed)

\* C22 (as claimed): the progress dictionary a /progress request can read is
\* never between two snapshots: while the thread installs one, the
\* dictionary is either what it was before or what it is afterwards.
C22_SnapshotsVisibleAtomically ==
    \/ pending.todo = <<>>
    \/ progress = pending.before[1]
    \/ progress = pending.after[1]

\* C28 (as claimed): a stop request answered with success after /process
\* returned and before the detector of that run reached the end of the
\* stream is not lost: once the run has ended, its detector has returned
\* early and the stage is 'stopped'.
C28_AcceptedStopIsHonoured ==
    (/\ stopAck \in {"spawned", "detecting"}
     /\ pc = "ended"
     /\ openable
     /\ session_id \in sessions) =>
        (progress.stage = "stopped" /\ nStopped = 1)

\* C25 (as claimed): once stop_requested is set during the detection or the
\* deduplication pass the run handles at most one further frame or
\* candidate before it stops.  For the detection pass this is
\* C3_NoReadOnceStopRequested; here, the candidates of the deduplication pass.
C25_AtMostOneCandidateAfterStop == dd.after_stop <= 1

\* how far the thread is from its end, by position
PhaseRank ==
    CASE pc = "spawned" -> 11
      [] pc = "start" -> 10
      [] pc = "scanning" -> 9
      [] pc \in {"stopped", "done"} -> 8
      [] pc = "deduplicating" -> 7
      [] pc = "deduplicated" -> 6
      [] pc = "stored" -> 5
      [] pc = "writing" /\ pending.then = "thumbnails" -> 4
      [] pc = "thumbnails" -> 3
      [] pc = "raised" -> 2
      [] pc = "writing" /\ pending.then # "thumbnails" -> 1
      [] OTHER -> 0

\* and by what is left of the loop or of the writes it is in
ThreadRank ==
    PhaseRank * (MaxFrames + 2)
      + (IF pc = "deduplicating" THEN Len(dIn) + 1 - dd.i
         ELSE IF pc = "writing" THEN Len(pending.todo)
         ELSE 0)

C30_BoundaryStep ==
    (pc = "scanning" /\ session_id \notin sessions) =>
        (det' = det /\ pc' \in {"stopped", "raised"})

C30_StaysRemoved == session_id \notin sessions => session_id \notin sessions'

C30_RankStep ==
    (session_id \notin sessions /\ vars' # vars) => ThreadRank' < ThreadRank

C30_Step == C30_BoundaryStep /\ C30_StaysRemoved /\ C30_RankStep

C30_CanStep ==
    (session_id \notin sessions /\ pc \notin {"idle", "ended"}) =>
        ENABLED ThreadNext

\* C30: once /cleanup has removed the session, a detector that is reading
\* frames reads no further frame (its next step is the return of the stop
\* branch, or the KeyError of a lookup that raced with the removal); the
\* thread terminates: until it has ended one of its steps is possible, and
\* every step brings it closer to its end; and the session id is never in
\* the session table again.
C30_CleanupStopsThread == []C30_CanStep /\ [][C30_Step]_vars

\* C30 witness: the session was removed while the detector had read at least
\* one frame; the detector returned through its stop branch without any
\* /stop request, and the thread has ended
C30_Witness ==
    /\ session_id \notin sessions
    /\ pc = "ended"
    /\ nStopped = 1
    /\ ~stop_requested
    /\ Len(returned) >= 1
    /\ det.frame_count < Len(source)

\* C21 (as claimed): at most one processing pass of the session is alive at
\* any time, however the /process requests interleave.
C21_OnePassAlive == Cardinality(alive) <= 1

====
